---- MODULE Spec2Model ----
(***************************************************************************)
(* git-global, src/config.rs: the path filter, the repository walker       *)
(* (find_repos), the repo cache store (cache_repos / get_cached_repos) and *)
(* the orchestration get_repos.                                            *)
(*                                                                         *)
(* Strings and file contents are sequences of bytes (naturals), so that    *)
(* substring search, byte-wise ordering, line splitting and writes at a    *)
(* file offset are computed, not assumed.                                  *)
(***************************************************************************)
EXTENDS Naturals, Sequences, FiniteSets, TLC

VARIABLES
    ignored_patterns, \* GitGlobalConfig.ignored_patterns
    fs,               \* the directory tree under basedir: entry path -> kind
    cacheFile,        \* the cache file on disk: [exists, data]
    cacheDir,         \* whether the cache directory exists
    pc,               \* per invocation: where it stands
    op,               \* per invocation: the public function it entered by
    stack,            \* walker: per open directory, its entries not yet read
    repos,            \* walker: find_repos' local `repos`
    enumerated,       \* walker: every entry the iterator has read so far
    wrepos,           \* cache_repos: its argument `repos`
    widx,             \* cache_repos: the next element of `repos` to write
    woff,             \* cache_repos: the offset of its open file
    result,           \* per invocation: the value returned
    walked,           \* find_repos calls made by the current invocation
    cacheAtCall,      \* the cache file as it was when the invocation began
    fileOwner,        \* the sequence passed to the call that created the file
    entry_path,       \* filter: the entry's path
    kept              \* filter: its return value

vars == <<ignored_patterns, fs, cacheFile, cacheDir, pc, op, stack, repos,
          enumerated, wrepos, widx, woff, result, walked, cacheAtCall,
          fileOwner, entry_path, kept>>

(***************************************************************************)
(* Bounds of the model.                                                    *)
(***************************************************************************)
MaxEntries == 4     \* entries created under basedir before a walk
MaxRepos == 2       \* length of a sequence handed to cache_repos directly
MaxPathLen == 3     \* filter inputs: length of the entry path
MaxPatLen == 2      \* filter inputs: length of one ignore pattern
MaxPatterns == 2    \* filter inputs: number of ignore patterns

(***************************************************************************)
(* Bytes.                                                                  *)
(***************************************************************************)
NUL == 0            \* what a hole in a file reads as
NL == 10            \* '\n', written by writeln!, split on by lines()
CR == 13            \* '\r', stripped by lines() before a '\n'
SLASH == 47         \* the path separator
BAD == 255          \* a byte that is not valid UTF-8

Empty == << >>
DotGit == <<46, 103, 105, 116>>             \* ".git"
BaseDir == <<SLASH, 98>>                    \* "/b", config.basedir
NameA == <<97>>                             \* "a"
NameGitz == <<46, 103, 105, 116, 122>>      \* ".gitz"
NameBad == <<BAD>>                          \* a name that is not UTF-8
NameNl == <<NL>>                            \* a name that is one line feed
NameCr == <<97, CR>>                        \* "a\r"

Range(s) == {s[i] : i \in 1..Len(s)}

\* Sequences over S of length at most n.
SeqsUpTo(S, n) == UNION {[1..k -> S] : k \in 0..n}

(***************************************************************************)
(* Paths (std::path).                                                      *)
(***************************************************************************)
\* The index of the last separator of p (0 when there is none).
LastSlash(p) ==
    LET idx == {i \in 1..Len(p) : p[i] = SLASH}
    IN  IF idx = {} THEN 0 ELSE CHOOSE i \in idx : \A j \in idx : j <= i

\* Path::join for a base without a trailing separator.
Join(dir, name) == dir \o <<SLASH>> \o name

\* DirEntry::file_name: the last component.
FileName(p) == SubSeq(p, LastSlash(p) + 1, Len(p))

\* Path::parent: the path without its last component ("/" stays "/").
Parent(p) ==
    IF LastSlash(p) = 1 THEN <<SLASH>> ELSE SubSeq(p, 1, LastSlash(p) - 1)

\* Path::to_str succeeds exactly on valid UTF-8.
ToStrOk(p) == BAD \notin Range(p)

\* str::contains: pat occurs in s at some offset (the empty pattern always).
Contains(s, pat) ==
    \E k \in 0..Len(s) :
        /\ k + Len(pat) <= Len(s)
        /\ \A i \in 1..Len(pat) : s[k + i] = pat[i]

\* Ord for str: byte-wise lexicographic, a proper prefix first.
StrLess(a, b) ==
    \E k \in 1..Len(b) :
        /\ \A i \in 1..(k - 1) : i <= Len(a) /\ a[i] = b[i]
        /\ \/ k = Len(a) + 1
           \/ k <= Len(a) /\ a[k] < b[k]

(***************************************************************************)
(* core::Repo, which config.rs only builds from a path and asks for its    *)
(* path: a Repo is its path string.                                        *)
(***************************************************************************)
RepoNew(path) == path

RepoPath(repo) == repo

(***************************************************************************)
(* GitGlobalConfig::filter.                                                *)
(***************************************************************************)
\* The fold of line 70 over patterns[i..], after the `p != ""` filter of 69.
RECURSIVE FoldPatterns(_, _, _, _)
FoldPatterns(path, patterns, i, acc) ==
    IF i > Len(patterns) THEN acc
    ELSE IF patterns[i] = Empty
         THEN FoldPatterns(path, patterns, i + 1, acc)
         ELSE FoldPatterns(path, patterns, i + 1,
                           acc /\ ~Contains(path, patterns[i]))

\* The same fold without the `p != ""` filter.
RECURSIVE FoldAllPatterns(_, _, _, _)
FoldAllPatterns(path, patterns, i, acc) ==
    IF i > Len(patterns) THEN acc
    ELSE FoldAllPatterns(path, patterns, i + 1,
                         acc /\ ~Contains(path, patterns[i]))

filter_keeps_empty(path, patterns) == FoldAllPatterns(path, patterns, 1, TRUE)

\* filter's value once entry.path().to_str() has succeeded.
filter(path, patterns) == FoldPatterns(path, patterns, 1, TRUE)

(***************************************************************************)
(* The directory tree, as walkdir sees it.                                 *)
(***************************************************************************)
\* What an entry is to the iterator: a directory (one that cannot be opened
\* is a directory without entries, followed by an Err item that line 144
\* drops), anything that is not a directory (a file, a symlink), or an entry
\* whose own read fails, which the iterator yields as an Err.
Kinds == {"dir", "file", "err"}

Entries == DOMAIN fs

\* The entries of directory d.
Children(d) == {e \in Entries : e # BaseDir /\ Parent(e) = d}

\* The proper ancestors of e, from basedir downward.
Ancestors(e) ==
    {a \in Entries : Len(a) < Len(e) /\ SubSeq(e, 1, Len(a) + 1) = a \o <<SLASH>>}

\* Drop the directories of the stack that have no entry left to read.
RECURSIVE PopFinished(_)
PopFinished(st) ==
    IF st # << >> /\ st[Len(st)] = {}
    THEN PopFinished(SubSeq(st, 1, Len(st) - 1))
    ELSE st

\* walkdir descends into every directory it yields, filtered or not.
DescendsAlways(kind, keep) == kind = "dir"

\* filter_entry: a directory is descended into only if the predicate keeps it.
Descends(kind, keep) == kind = "dir" /\ keep

\* Any entry named ".git" counts, directory or not.
IsMarkerAnyType(kind, path) == FileName(path) = DotGit

\* Line 131: entry.file_type().is_dir() && entry.file_name() == ".git".
IsMarker(kind, path) == kind = "dir" /\ FileName(path) = DotGit

(***************************************************************************)
(* Vec::sort_by with |a, b| a.path().cmp(&b.path()): a stable sort.        *)
(***************************************************************************)
\* s with x put after every element that is not greater than x.
RECURSIVE InsertSorted(_, _)
InsertSorted(s, x) ==
    IF s = << >> THEN <<x>>
    ELSE IF StrLess(RepoPath(x), RepoPath(s[1])) THEN <<x>> \o s
         ELSE <<s[1]>> \o InsertSorted(Tail(s), x)

RECURSIVE SortFrom(_, _)
SortFrom(s, acc) ==
    IF s = << >> THEN acc ELSE SortFrom(Tail(s), InsertSorted(acc, s[1]))

unsorted(s) == s

sort_by(s) == SortFrom(s, << >>)

(***************************************************************************)
(* The cache file.                                                         *)
(***************************************************************************)
NoFile == [exists |-> FALSE, data |-> << >>]

\* GitGlobalConfig::has_cache.
has_cache_never == FALSE

has_cache == cacheFile.exists

\* A file after `bytes` is written at offset `off` (a gap reads as NUL).
WriteAt(data, off, bytes) ==
    LET n == IF off + Len(bytes) > Len(data) THEN off + Len(bytes) ELSE Len(data)
    IN  [i \in 1..n |->
            IF i > off /\ i <= off + Len(bytes) THEN bytes[i - off]
            ELSE IF i <= Len(data) THEN data[i] ELSE NUL]

\* The index of the first NL of data at or after pos (0 when there is none).
NextNl(data, pos) ==
    LET idx == {i \in pos..Len(data) : data[i] = NL}
    IN  IF idx = {} THEN 0 ELSE CHOOSE i \in idx : \A j \in idx : i <= j

\* BufRead::lines: a line without its "\n" or "\r\n".
StripEol(raw) ==
    IF raw # << >> /\ raw[Len(raw)] = NL
    THEN LET s == SubSeq(raw, 1, Len(raw) - 1)
         IN  IF s # << >> /\ s[Len(s)] = CR THEN SubSeq(s, 1, Len(s) - 1) ELSE s
    ELSE raw

\* The loop of get_cached_repos over reader.lines(), from byte pos on: a line
\* that is not UTF-8 is an Err and is skipped.
RECURSIVE ReadLines(_, _, _)
ReadLines(data, pos, acc) ==
    IF pos > Len(data) THEN acc
    ELSE LET nl == NextNl(data, pos)
             end == IF nl = 0 THEN Len(data) ELSE nl
             raw == SubSeq(data, pos, end)
         IN  ReadLines(data, end + 1,
                       IF ToStrOk(raw) THEN Append(acc, RepoNew(StripEol(raw)))
                       ELSE acc)

\* GitGlobalConfig::get_cached_repos, once File::open has succeeded.
get_cached_repos ==
    IF cacheFile.exists THEN ReadLines(cacheFile.data, 1, << >>) ELSE << >>

(***************************************************************************)
(* Invocations.  An invocation is idle, inside one public function, or has *)
(* ended: "returned", or "panicked" (an expect or panic! fired).           *)
(***************************************************************************)
Procs == {1, 2}

PatternLists == {<< >>, <<Empty, <<122>>>>, <<<<98>>>>}   \* [], ["", "z"], ["b"]
WalkNames == {DotGit, NameA, NameGitz, NameBad}
RepoNames == {NameA, NameNl, NameCr}
RepoLists == SeqsUpTo({Join(BaseDir, n) : n \in RepoNames}, MaxRepos)
FilterBytes == {97, 98}

Idle(p) == pc[p] = "idle"

\* The first statements of find_repos: an empty Vec, and the iterator at basedir.
StartWalk(p) ==
    /\ pc' = [pc EXCEPT ![p] = "walk"]
    /\ stack' = <<{BaseDir}>>
    /\ repos' = << >>
    /\ enumerated' = {}
    /\ walked' = walked + 1

\* A call of find_repos(config).
FindReposCall(p) ==
    /\ Idle(p)
    /\ op' = [op EXCEPT ![p] = "find_repos"]
    /\ StartWalk(p)
    /\ UNCHANGED <<ignored_patterns, fs, cacheFile, cacheDir, wrepos, widx, woff,
                   result, cacheAtCall, fileOwner, entry_path, kept>>

\* A call of get_repos(config): the cache file decides between the walk and
\* get_cached_repos, whose File::open may fail.
GetReposCall(p) ==
    /\ Idle(p)
    /\ op' = [op EXCEPT ![p] = "get_repos"]
    /\ cacheAtCall' = cacheFile
    /\ IF ~has_cache
       THEN /\ StartWalk(p)
            /\ UNCHANGED result
       ELSE /\ \E opened \in BOOLEAN :
                 IF opened
                 THEN /\ pc' = [pc EXCEPT ![p] = "returned"]
                      /\ result' = [result EXCEPT ![p] = get_cached_repos]
                 ELSE /\ pc' = [pc EXCEPT ![p] = "panicked"]
                      /\ UNCHANGED result
            /\ UNCHANGED <<stack, repos, enumerated, walked>>
    /\ UNCHANGED <<ignored_patterns, fs, cacheFile, cacheDir, wrepos, widx, woff,
                   fileOwner, entry_path, kept>>

\* One turn of the iterator of lines 125-146 on entry e of the directory on
\* top of the stack: an Err item is dropped; filter panics on a path that is
\* not UTF-8; a filtered entry is skipped, and not descended into; a kept
\* entry that is a marker pushes its parent.
WalkEntry(p) ==
    /\ pc[p] = "walk"
    /\ stack # << >>
    /\ \E e \in stack[Len(stack)] :
         LET rest == [stack EXCEPT ![Len(stack)] = @ \ {e}]
             kind == fs[e]
             keep == filter(e, ignored_patterns)
         IN  /\ enumerated' = enumerated \cup {e}
             /\ IF kind = "err"
                THEN /\ stack' = PopFinished(rest)
                     /\ UNCHANGED <<pc, repos>>
                ELSE IF ~ToStrOk(e)
                THEN /\ pc' = [pc EXCEPT ![p] = "panicked"]
                     /\ UNCHANGED <<stack, repos>>
                ELSE /\ stack' = PopFinished(IF Descends(kind, keep)
                                             THEN Append(rest, Children(e))
                                             ELSE rest)
                     /\ repos' = IF keep /\ IsMarker(kind, e) /\ ToStrOk(Parent(e))
                                 THEN Append(repos, RepoNew(Parent(e)))
                                 ELSE repos
                     /\ UNCHANGED pc
    /\ UNCHANGED <<ignored_patterns, fs, cacheFile, cacheDir, op, wrepos, widx,
                   woff, result, walked, cacheAtCall, fileOwner,
                   entry_path, kept>>

\* The iterator is exhausted: lines 147-148 sort and return; in get_repos
\* the result goes to cache_repos (line 160).
WalkDone(p) ==
    /\ pc[p] = "walk"
    /\ stack = << >>
    /\ IF op[p] = "find_repos"
       THEN /\ pc' = [pc EXCEPT ![p] = "returned"]
            /\ result' = [result EXCEPT ![p] = sort_by(repos)]
            /\ UNCHANGED wrepos
       ELSE /\ pc' = [pc EXCEPT ![p] = "cr_dir"]
            /\ wrepos' = [wrepos EXCEPT ![p] = sort_by(repos)]
            /\ UNCHANGED result
    /\ UNCHANGED <<ignored_patterns, fs, cacheFile, cacheDir, op, stack, repos,
                   enumerated, widx, woff, walked, cacheAtCall, fileOwner,
                   entry_path, kept>>

\* A call of cache_repos(config, &rs), line 152.
CacheReposCall(p) ==
    /\ Idle(p)
    /\ \E rs \in RepoLists : wrepos' = [wrepos EXCEPT ![p] = rs]
    /\ op' = [op EXCEPT ![p] = "cache_repos"]
    /\ pc' = [pc EXCEPT ![p] = "cr_dir"]
    /\ cacheAtCall' = cacheFile
    /\ UNCHANGED <<ignored_patterns, fs, cacheFile, cacheDir, stack, repos,
                   enumerated, widx, woff, result, walked, fileOwner,
                   entry_path, kept>>

\* Lines 80-87: without a cache file, app_dir creates the directory or the
\* invocation panics.
CrEnsureDir(p) ==
    /\ pc[p] = "cr_dir"
    /\ IF ~cacheFile.exists
       THEN \E made \in BOOLEAN :
                IF made
                THEN /\ cacheDir' = TRUE
                     /\ pc' = [pc EXCEPT ![p] = "cr_create"]
                ELSE /\ pc' = [pc EXCEPT ![p] = "panicked"]
                     /\ UNCHANGED cacheDir
       ELSE /\ pc' = [pc EXCEPT ![p] = "cr_create"]
            /\ UNCHANGED cacheDir
    /\ UNCHANGED <<ignored_patterns, fs, cacheFile, op, stack, repos, enumerated,
                   wrepos, widx, woff, result, walked, cacheAtCall, fileOwner,
                   entry_path, kept>>

\* Lines 88-89: File::create makes the file or truncates it, and opens it at
\* offset 0; it fails without the directory, and may fail with it.
CrCreate(p) ==
    /\ pc[p] = "cr_create"
    /\ \E created \in BOOLEAN :
         IF created /\ cacheDir
         THEN /\ cacheFile' = [exists |-> TRUE, data |-> << >>]
              /\ woff' = [woff EXCEPT ![p] = 0]
              /\ widx' = [widx EXCEPT ![p] = 1]
              /\ fileOwner' = wrepos[p]
              /\ pc' = [pc EXCEPT ![p] = "cr_write"]
         ELSE /\ pc' = [pc EXCEPT ![p] = "panicked"]
              /\ UNCHANGED <<cacheFile, woff, widx, fileOwner>>
    /\ UNCHANGED <<ignored_patterns, fs, cacheDir, op, stack, repos, enumerated,
                   wrepos, result, walked, cacheAtCall, entry_path, kept>>

\* Lines 90-95: one writeln!(f, "{}", repo.path()) of the loop, at the file's
\* own offset. On an unbuffered File it writes the path, then the line feed;
\* either write may fail, and an Err panics with what was written left behind.
CrWrite(p) ==
    /\ pc[p] = "cr_write"
    /\ widx[p] <= Len(wrepos[p])
    /\ \E written \in {"line", "path", "nothing"} :
         LET path == RepoPath(wrepos[p][widx[p]])
             bytes == IF written = "line" THEN path \o <<NL>>
                      ELSE IF written = "path" THEN path ELSE << >>
         IN  /\ cacheFile' = [cacheFile EXCEPT !.data = WriteAt(@, woff[p], bytes)]
             /\ woff' = [woff EXCEPT ![p] = @ + Len(bytes)]
             /\ IF written = "line"
                THEN /\ widx' = [widx EXCEPT ![p] = @ + 1]
                     /\ UNCHANGED pc
                ELSE /\ pc' = [pc EXCEPT ![p] = "panicked"]
                     /\ UNCHANGED widx
    /\ UNCHANGED <<ignored_patterns, fs, cacheDir, op, stack, repos, enumerated,
                   wrepos, result, walked, cacheAtCall, fileOwner, entry_path,
                   kept>>

\* Line 96: cache_repos returns; get_repos then returns the walk's result
\* (line 161).
CrReturn(p) ==
    /\ pc[p] = "cr_write"
    /\ widx[p] > Len(wrepos[p])
    /\ pc' = [pc EXCEPT ![p] = "returned"]
    /\ result' = [result EXCEPT ![p] = IF op[p] = "get_repos" THEN wrepos[p] ELSE << >>]
    /\ UNCHANGED <<ignored_patterns, fs, cacheFile, cacheDir, op, stack, repos,
                   enumerated, wrepos, widx, woff, walked, cacheAtCall,
                   fileOwner, entry_path, kept>>

\* A call of config.filter(entry) on an entry whose path is entry_path.
FilterCall(p) ==
    /\ Idle(p)
    /\ op' = [op EXCEPT ![p] = "filter"]
    /\ IF ToStrOk(entry_path)
       THEN /\ kept' = filter(entry_path, ignored_patterns)
            /\ pc' = [pc EXCEPT ![p] = "returned"]
       ELSE /\ pc' = [pc EXCEPT ![p] = "panicked"]
            /\ UNCHANGED kept
    /\ UNCHANGED <<ignored_patterns, fs, cacheFile, cacheDir, stack, repos,
                   enumerated, wrepos, widx, woff, result, walked, cacheAtCall,
                   fileOwner, entry_path>>

\* The invocation is over (it returned or panicked); its locals are dropped.
Exit(p) ==
    /\ pc[p] \in {"returned", "panicked"}
    /\ pc' = [pc EXCEPT ![p] = "idle"]
    /\ op' = [op EXCEPT ![p] = "none"]
    /\ wrepos' = [wrepos EXCEPT ![p] = << >>]
    /\ widx' = [widx EXCEPT ![p] = 0]
    /\ woff' = [woff EXCEPT ![p] = 0]
    /\ result' = [result EXCEPT ![p] = << >>]
    /\ stack' = << >>
    /\ repos' = << >>
    /\ enumerated' = {}
    /\ walked' = 0
    /\ cacheAtCall' = NoFile
    /\ UNCHANGED <<ignored_patterns, fs, cacheFile, cacheDir,
                   fileOwner, entry_path, kept>>

(***************************************************************************)
(* The environment, between invocations.                                   *)
(***************************************************************************)
\* An entry appears in the tree.
CreateEntry ==
    /\ Idle(1)
    /\ Cardinality(Entries) <= MaxEntries
    /\ \E d \in Entries, n \in WalkNames, k \in Kinds :
         /\ fs[d] = "dir"
         /\ Join(d, n) \notin Entries
         /\ fs' = fs @@ (Join(d, n) :> k)
    /\ UNCHANGED <<ignored_patterns, cacheFile, cacheDir, pc, op, stack, repos,
                   enumerated, wrepos, widx, woff, result, walked, cacheAtCall,
                   fileOwner, entry_path, kept>>

\* A repository is created under basedir: a directory holding a `.git` directory.
GitInit ==
    /\ Idle(1)
    /\ \E n \in RepoNames :
         /\ Join(BaseDir, n) \notin Entries
         /\ fs' = fs @@ (Join(BaseDir, n) :> "dir")
                     @@ (Join(Join(BaseDir, n), DotGit) :> "dir")
    /\ UNCHANGED <<ignored_patterns, cacheFile, cacheDir, pc, op, stack, repos,
                   enumerated, wrepos, widx, woff, result, walked, cacheAtCall,
                   fileOwner, entry_path, kept>>

\* A repository is removed with all it holds.
RemoveRepo ==
    /\ Idle(1)
    /\ \E n \in RepoNames :
         /\ Join(BaseDir, n) \in Entries
         /\ fs' = [e \in Entries \ {Join(BaseDir, n), Join(Join(BaseDir, n), DotGit)}
                     |-> fs[e]]
    /\ UNCHANGED <<ignored_patterns, cacheFile, cacheDir, pc, op, stack, repos,
                   enumerated, wrepos, widx, woff, result, walked, cacheAtCall,
                   fileOwner, entry_path, kept>>

\* The cache file is deleted from outside.
ClearCache ==
    /\ Idle(1)
    /\ cacheFile.exists
    /\ cacheFile' = NoFile
    /\ fileOwner' = << >>
    /\ UNCHANGED <<ignored_patterns, fs, cacheDir, pc, op, stack, repos,
                   enumerated, wrepos, widx, woff, result, walked,
                   cacheAtCall, entry_path, kept>>

(***************************************************************************)
(* Specifications.                                                         *)
(***************************************************************************)
\* A fresh system: no cache, an empty basedir, no invocation running.
InitCommon ==
    /\ cacheFile = NoFile
    /\ cacheDir = FALSE
    /\ pc = [p \in Procs |-> "idle"]
    /\ op = [p \in Procs |-> "none"]
    /\ stack = << >>
    /\ repos = << >>
    /\ enumerated = {}
    /\ wrepos = [p \in Procs |-> << >>]
    /\ widx = [p \in Procs |-> 0]
    /\ woff = [p \in Procs |-> 0]
    /\ result = [p \in Procs |-> << >>]
    /\ walked = 0
    /\ cacheAtCall = NoFile
    /\ fileOwner = << >>
    /\ kept = TRUE

\* get_repos and cache_repos, one invocation at a time, while repositories
\* come and go and the cache may be cleared.
Init ==
    /\ InitCommon
    /\ ignored_patterns \in PatternLists
    /\ fs = (BaseDir :> "dir")
    /\ entry_path = << >>

Next ==
    \/ GetReposCall(1)
    \/ WalkEntry(1)
    \/ WalkDone(1)
    \/ CacheReposCall(1)
    \/ CrEnsureDir(1)
    \/ CrCreate(1)
    \/ CrWrite(1)
    \/ CrReturn(1)
    \/ Exit(1)
    \/ GitInit
    \/ RemoveRepo
    \/ ClearCache

Spec == Init /\ [][Next]_vars

\* find_repos alone, over every tree of at most MaxEntries entries.
InitWalk ==
    /\ InitCommon
    /\ ignored_patterns \in PatternLists
    /\ fs \in {(BaseDir :> "dir"), (BaseDir :> "err")}
    /\ entry_path = << >>

NextWalk ==
    \/ CreateEntry
    \/ FindReposCall(1)
    \/ WalkEntry(1)
    \/ WalkDone(1)
    \/ Exit(1)

SpecWalk == InitWalk /\ [][NextWalk]_vars

\* filter alone, over every entry path and pattern list within the bounds.
InitFilter ==
    /\ InitCommon
    /\ ignored_patterns \in SeqsUpTo(SeqsUpTo(FilterBytes, MaxPatLen), MaxPatterns)
    /\ fs = (BaseDir :> "dir")
    /\ entry_path \in SeqsUpTo(FilterBytes, MaxPathLen)

NextFilter == FilterCall(1)

SpecFilter == InitFilter /\ [][NextFilter]_vars

\* Two invocations inside cache_repos at once, their steps interleaved.
NextRace ==
    \E p \in Procs :
        \/ CacheReposCall(p)
        \/ CrEnsureDir(p)
        \/ CrCreate(p)
        \/ CrWrite(p)
        \/ CrReturn(p)

InitRace ==
    /\ InitCommon
    /\ ignored_patterns = << >>
    /\ fs = (BaseDir :> "dir")
    /\ entry_path = << >>

SpecRace == InitRace /\ [][NextRace]_vars

(***************************************************************************)
(* What the claims speak of, stated without the code's algorithms.         *)
(***************************************************************************)
\* pat occurs in s as a contiguous block.
IsSubstring(s, pat) ==
    \E i \in 1..(Len(s) + 1), j \in 0..Len(s) : SubSeq(s, i, j) = pat

\* Some non-empty ignore pattern occurs in path.
Ignored(path) ==
    \E i \in 1..Len(ignored_patterns) :
        ignored_patterns[i] # Empty /\ IsSubstring(path, ignored_patterns[i])

\* The `.git` directories of the tree, and those no ignore pattern cuts off.
Markers == {e \in Entries : fs[e] = "dir" /\ FileName(e) = DotGit}

OpenMarkers == {m \in Markers : ~Ignored(m) /\ \A a \in Ancestors(m) : ~Ignored(a)}

\* The positions of the line feeds of a file, and the k-th of them.
NlAt(data) == {i \in 1..Len(data) : data[i] = NL}

KthNl(data, k) ==
    CHOOSE i \in NlAt(data) : Cardinality({j \in NlAt(data) : j <= i}) = k

\* The lines of a file: the blocks its line feeds end, then what follows the
\* last one if anything does; a "\r" before the line feed is not of the line.
LineCount(data) ==
    Cardinality(NlAt(data))
        + (IF data # << >> /\ data[Len(data)] # NL THEN 1 ELSE 0)

LineOf(data, k) ==
    LET first == IF k = 1 THEN 1 ELSE KthNl(data, k - 1) + 1
        ended == k <= Cardinality(NlAt(data))
        last == IF ended THEN KthNl(data, k) - 1 ELSE Len(data)
    IN  IF ended /\ last >= first /\ data[last] = CR
        THEN SubSeq(data, first, last - 1)
        ELSE SubSeq(data, first, last)

FileLines(data) ==
    SelectSeq([k \in 1..LineCount(data) |-> LineOf(data, k)], ToStrOk)

\* The bytes of a cache file that holds all of rs: each path, then a line feed.
RECURSIVE Serialize(_)
Serialize(rs) ==
    IF rs = << >> THEN << >> ELSE rs[1] \o <<NL>> \o Serialize(Tail(rs))

\* A path that is one line of a file: no line feed in it, no carriage return
\* at its end.
LineSafe(path) == NL \notin Range(path) /\ (path = << >> \/ path[Len(path)] # CR)

AllLineSafe(rs) == \A i \in 1..Len(rs) : LineSafe(rs[i])

Ascending(s) == \A i, j \in 1..Len(s) : i < j => StrLess(s[i], s[j])

Returned(p, f) == pc[p] = "returned" /\ op[p] = f

(***************************************************************************)
(* The claims.                                                             *)
(***************************************************************************)
\* C1: a get_repos call that finds the cache file present (a zero-byte file
\* too) never walks, leaves the file as it was, and returns the file's lines
\* in file order.
C1_CacheHit ==
    (op[1] = "get_repos" /\ cacheAtCall.exists) =>
        /\ walked = 0
        /\ pc[1] \in {"returned", "panicked"}
        /\ cacheFile = cacheAtCall
        /\ pc[1] = "returned" => result[1] = FileLines(cacheAtCall.data)

\* C1, witness: a hit that returned two repositories.
C1_Witness ==
    /\ Returned(1, "get_repos")
    /\ cacheAtCall.exists
    /\ Len(result[1]) = 2

\* C1, the zero-byte case: a hit on an empty file.
C1_EmptyFileHit ==
    /\ Returned(1, "get_repos")
    /\ cacheAtCall.exists
    /\ cacheAtCall.data = << >>
    /\ result[1] = << >>

\* C2: once cache_repos(R) has returned, get_cached_repos() is R, whatever the
\* file held before.
C2_RoundTrip ==
    Returned(1, "cache_repos") => get_cached_repos = wrepos[1]

\* C2, where it does hold: R whose paths hold no line feed and do not end in
\* a carriage return.
C2_RoundTripLineSafe ==
    (Returned(1, "cache_repos") /\ AllLineSafe(wrepos[1]))
        => get_cached_repos = wrepos[1]

\* C3: filter is false exactly when some non-empty pattern is a substring of
\* the entry's path.
C3_Filter ==
    Returned(1, "filter") => (kept = FALSE <=> Ignored(entry_path))

\* C3, witness: a list holding "" and a pattern that occurs rejects the entry.
C3_Witness ==
    /\ Returned(1, "filter")
    /\ kept = FALSE
    /\ Empty \in Range(ignored_patterns)

\* C3, the empty patterns alone: filter keeps a non-empty path.
C3_OnlyEmptyPatterns ==
    /\ Returned(1, "filter")
    /\ kept = TRUE
    /\ ignored_patterns = <<Empty>>
    /\ entry_path # << >>

\* C4: no entry under a directory the filter rejects is ever read, and no
\* repository is collected whose marker, or a directory above it down from
\* basedir, has a non-empty ignore pattern in its path.
C4_Pruning ==
    /\ \A e \in enumerated : \A a \in Ancestors(e) : ~Ignored(a)
    /\ \A r \in Range(repos) \cup Range(result[1]) :
          /\ Join(r, DotGit) \in Entries
          /\ ~Ignored(Join(r, DotGit))
          /\ \A a \in Ancestors(Join(r, DotGit)) : ~Ignored(a)

\* C4, witness: /b/a/.git and /b/.gitz/.git with the pattern "z": the walk
\* returned [/b/a] and read nothing under /b/.gitz.
C4_Witness ==
    /\ Returned(1, "find_repos")
    /\ ignored_patterns = <<Empty, <<122>>>>
    /\ Markers = {Join(Join(BaseDir, NameA), DotGit),
                  Join(Join(BaseDir, NameGitz), DotGit)}
    /\ result[1] = <<Join(BaseDir, NameA)>>
    /\ Join(BaseDir, NameGitz) \in enumerated
    /\ Join(Join(BaseDir, NameGitz), DotGit) \notin enumerated

\* C5: find_repos returns its repositories in strictly ascending byte order,
\* and they are the parents of the markers no pattern cuts off: the sequence
\* is fixed by the tree and the configuration, not by the order of reading.
C5_Sorted ==
    Returned(1, "find_repos") =>
        /\ Ascending(result[1])
        /\ Range(result[1]) = {Parent(m) : m \in OpenMarkers}

\* C5, witness: two repositories that were collected in descending order.
C5_Witness ==
    /\ Returned(1, "find_repos")
    /\ Len(repos) = 2
    /\ StrLess(repos[2], repos[1])

\* C6: with no pattern matching and no unreadable entry, find_repos returns
\* one repository per `.git` directory, its parent, and nothing else.
C6_Markers ==
    (/\ Returned(1, "find_repos")
     /\ \A e \in Entries : fs[e] # "err" /\ ~Ignored(e))
        => /\ Len(result[1]) = Cardinality(Markers)
           /\ Range(result[1]) = {Parent(m) : m \in Markers}

\* C6, witness: a walk that met a `.git` directory, a file named `.git` and a
\* directory whose name only begins with `.git`.
C6_Witness ==
    /\ Returned(1, "find_repos")
    /\ \A e \in Entries : fs[e] # "err" /\ ~Ignored(e)
    /\ Len(result[1]) = 1
    /\ \E e \in enumerated : fs[e] = "file" /\ FileName(e) = DotGit
    /\ \E e \in enumerated : fs[e] = "dir" /\ FileName(e) = NameGitz

\* C7: a get_repos call that found no cache file walks once, and when it
\* returns the cache file exists and holds exactly the sequence returned.
C7_MissThenCached ==
    (Returned(1, "get_repos") /\ ~cacheAtCall.exists) =>
        /\ walked = 1
        /\ has_cache
        /\ get_cached_repos = result[1]

\* C8: no entry makes find_repos panic.
C8_WalkNeverFatal ==
    ~(pc[1] = "panicked" /\ op[1] = "find_repos")

\* C9: once two racing cache_repos calls have both returned, the file holds
\* all of the one's sequence or all of the other's (stated for paths that
\* are each one line of the file).
C9_LastWriterWins ==
    (/\ pc[1] = "returned" /\ pc[2] = "returned"
     /\ AllLineSafe(wrepos[1]) /\ AllLineSafe(wrepos[2]))
        => cacheFile.data \in {Serialize(wrepos[1]), Serialize(wrepos[2])}

\* C10: whenever an invocation begins with the cache file present, the file
\* holds all of the sequence passed to the cache_repos call that created it.
C10_NoPartialCache ==
    (Idle(1) /\ has_cache) => cacheFile.data = Serialize(fileOwner)

====
